---------------------------- MODULE Spec2Model ----------------------------
(***************************************************************************)
(* The card game "War" as simulated by gowsim: src/src/game.rs (cards,     *)
(* players, Game::new, Game::step, resolve_war) driven by the loop of      *)
(* histogram_length_of_game in src/src/main.rs.                            *)
(*                                                                         *)
(* A Vec is a sequence whose last element is the top: push appends, pop    *)
(* removes the last element.  An Option is a sequence of length 0 or 1.    *)
(* The random source is not part of the state: every use of it is a        *)
(* nondeterministic choice over the values it can return.                  *)
(***************************************************************************)
EXTENDS Integers, Sequences, FiniteSets, TLC

(* Number of turns the driver loop is followed for. *)
MaxTurns == 8

(* Number of turns the loop is followed for when every pot is ordered the  *)
(* same way.                                                               *)
MaxOrderedTurns == 80

(* Number of cards of the deck: Vec::with_capacity(52), count_cards() == 52. *)
DeckSize == 52

(* ------------------------------ cards --------------------------------- *)

Suit == {"Hearts", "Diamonds", "Clubs", "Spades"}

Number(n) == <<"Number", n>>
Jack == <<"Jack", 0>>
Queen == <<"Queen", 0>>
King == <<"King", 0>>
Ace == <<"Ace", 0>>

Face == {Number(n) : n \in 2..10} \cup {Jack, Queen, King, Ace}

(* measure_strength with the Ace counted as in war_length. *)
measure_strength_ace_low(face) ==
    CASE face[1] = "Number" -> face[2]
      [] face[1] = "Jack" -> 11
      [] face[1] = "Queen" -> 12
      [] face[1] = "King" -> 13
      [] face[1] = "Ace" -> 1

measure_strength(face) ==
    CASE face[1] = "Number" -> face[2]
      [] face[1] = "Jack" -> 11
      [] face[1] = "Queen" -> 12
      [] face[1] = "King" -> 13
      [] face[1] = "Ace" -> 14

(* war_length with the Ace counted as in measure_strength. *)
war_length_ace_high(face) ==
    CASE face[1] = "Number" -> face[2]
      [] face[1] = "Ace" -> 14
      [] face[1] = "Jack" -> 12
      [] face[1] = "Queen" -> 13
      [] face[1] = "King" -> 14

(* war_length with the Jack counted as in measure_strength. *)
war_length_jack_as_strength(face) ==
    CASE face[1] = "Number" -> face[2]
      [] face[1] = "Ace" -> 1
      [] face[1] = "Jack" -> 11
      [] face[1] = "Queen" -> 13
      [] face[1] = "King" -> 14

war_length(face) ==
    CASE face[1] = "Number" -> face[2]
      [] face[1] = "Ace" -> 1
      [] face[1] = "Jack" -> 12
      [] face[1] = "Queen" -> 13
      [] face[1] = "King" -> 14

Card(suit, face) == [suit |-> suit, face |-> face]

(* The suits and faces in the order create_standard_deck iterates them. *)
DeckSuits == <<"Clubs", "Diamonds", "Hearts", "Spades">>

DeckFaces ==
    <<Ace, Number(2), Number(3), Number(4), Number(5), Number(6), Number(7),
      Number(8), Number(9), Number(10), Jack, Queen, King>>

create_standard_deck ==
    [i \in 1..(Len(DeckSuits) * Len(DeckFaces)) |->
        Card(DeckSuits[((i - 1) \div Len(DeckFaces)) + 1],
             DeckFaces[((i - 1) % Len(DeckFaces)) + 1])]

(* ------------------------------ players ------------------------------- *)

Last(s) == s[Len(s)]
Front(s) == SubSeq(s, 1, Len(s) - 1)

count_cards(player) == Len(player.draw_pile) + Len(player.winnings_pile)

(* is_dead looking at the draw pile alone. *)
is_dead_draw_pile_only(player) == Len(player.draw_pile) = 0

is_dead(player) == count_cards(player) = 0

is_winner(player) == count_cards(player) = DeckSize

(* draw with the winnings pile copied into the draw pile, not swapped. *)
draw_copying(player) ==
    LET swapped ==
            IF Len(player.draw_pile) = 0 /\ Len(player.winnings_pile) # 0
            THEN [draw_pile |-> player.winnings_pile,
                  winnings_pile |-> player.winnings_pile]
            ELSE player
    IN  IF Len(swapped.draw_pile) = 0
        THEN [card |-> <<>>, player |-> swapped]
        ELSE [card |-> <<Last(swapped.draw_pile)>>,
              player |-> [swapped EXCEPT !.draw_pile = Front(@)]]

(* draw with the winnings pile turned upside down as it becomes the draw    *)
(* pile.                                                                   *)
draw_turning_over(player) ==
    LET swapped ==
            IF Len(player.draw_pile) = 0 /\ Len(player.winnings_pile) # 0
            THEN [draw_pile |->
                      [i \in 1..Len(player.winnings_pile) |->
                          player.winnings_pile[Len(player.winnings_pile) + 1 - i]],
                  winnings_pile |-> player.draw_pile]
            ELSE player
    IN  IF Len(swapped.draw_pile) = 0
        THEN [card |-> <<>>, player |-> swapped]
        ELSE [card |-> <<Last(swapped.draw_pile)>>,
              player |-> [swapped EXCEPT !.draw_pile = Front(@)]]

(* Player::draw: the card drawn (an Option) and the player afterwards. *)
draw(player) ==
    LET swapped ==
            IF Len(player.draw_pile) = 0 /\ Len(player.winnings_pile) # 0
            THEN [draw_pile |-> player.winnings_pile,
                  winnings_pile |-> player.draw_pile]
            ELSE player
    IN  IF Len(swapped.draw_pile) = 0
        THEN [card |-> <<>>, player |-> swapped]
        ELSE [card |-> <<Last(swapped.draw_pile)>>,
              player |-> [swapped EXCEPT !.draw_pile = Front(@)]]

(* A Rust pair (a, b), indexed .0 and .1. *)
Pair(a, b) == [i \in {0, 1} |-> IF i = 0 THEN a ELSE b]

(* ------------------------------ events -------------------------------- *)

GameOver(winner) == [kind |-> "GameOver", winning_player_id |-> winner]

ShortBattle(winner, winning_card, losing_card, pot) ==
    [kind |-> "ShortBattle", winning_player_id |-> winner,
     winning_card |-> winning_card, losing_card |-> losing_card, pot |-> pot]

WarStart(top_cards, expected_length) ==
    [kind |-> "WarStart", top_cards |-> top_cards,
     expected_length |-> expected_length]

WarShortened(player_id, after, initial) ==
    [kind |-> "WarShortened",
     player_id_with_insufficient_cards |-> player_id,
     length_of_war_after_shortening |-> after,
     initial_length_of_war |-> initial]

WarEnd(winner, final_top_cards) ==
    [kind |-> "WarEnd", winning_player_id |-> winner,
     final_top_cards |-> final_top_cards]

(* ---------------------------- resolve_war ------------------------------ *)

(* war_draws reporting a player who ran out on the last expected draw. *)
RECURSIVE war_draws_flagging_exact(_, _, _, _, _)
war_draws_flagging_exact(players, pot, events, i, expected_length) ==
    IF i > expected_length
    THEN IF count_cards(players[0]) # 0 /\ count_cards(players[1]) # 0
         THEN [players |-> players, pot |-> pot, events |-> events,
               drawn |-> i - 1, shortened |-> FALSE, fatal |-> ""]
         ELSE [players |-> players, pot |-> pot,
               events |-> Append(events,
                             WarShortened(
                                 IF count_cards(players[0]) = 0 THEN 0 ELSE 1,
                                 i - 1, expected_length)),
               drawn |-> i - 1, shortened |-> TRUE, fatal |-> ""]
    ELSE IF count_cards(players[0]) # 0 /\ count_cards(players[1]) # 0
    THEN LET a == draw(players[0])
             b == draw(players[1])
         IN  IF Len(a.card) = 1 /\ Len(b.card) = 1
             THEN war_draws_flagging_exact(Pair(a.player, b.player),
                            Pair(Append(pot[0], a.card[1]),
                                 Append(pot[1], b.card[1])),
                            events, i + 1, expected_length)
             ELSE [players |-> Pair(a.player, b.player), pot |-> pot,
                   events |-> events, drawn |-> i - 1, shortened |-> FALSE,
                   fatal |-> "Drawing a card now should never fail"]
    ELSE [players |-> players, pot |-> pot,
          events |-> Append(events,
                        WarShortened(
                            IF count_cards(players[0]) = 0 THEN 0 ELSE 1,
                            i - 1, expected_length)),
          drawn |-> i - 1, shortened |-> TRUE, fatal |-> ""]

(* war_draws reporting the iteration, not the number of draws made. *)
RECURSIVE war_draws_reporting_i(_, _, _, _, _)
war_draws_reporting_i(players, pot, events, i, expected_length) ==
    IF i > expected_length
    THEN [players |-> players, pot |-> pot, events |-> events,
          drawn |-> i - 1, shortened |-> FALSE, fatal |-> ""]
    ELSE IF count_cards(players[0]) # 0 /\ count_cards(players[1]) # 0
    THEN LET a == draw(players[0])
             b == draw(players[1])
         IN  IF Len(a.card) = 1 /\ Len(b.card) = 1
             THEN war_draws_reporting_i(Pair(a.player, b.player),
                            Pair(Append(pot[0], a.card[1]),
                                 Append(pot[1], b.card[1])),
                            events, i + 1, expected_length)
             ELSE [players |-> Pair(a.player, b.player), pot |-> pot,
                   events |-> events, drawn |-> i - 1, shortened |-> FALSE,
                   fatal |-> "Drawing a card now should never fail"]
    ELSE [players |-> players, pot |-> pot,
          events |-> Append(events,
                        WarShortened(
                            IF count_cards(players[0]) = 0 THEN 0 ELSE 1,
                            i, expected_length)),
          drawn |-> i - 1, shortened |-> TRUE, fatal |-> ""]

(* war_draws looking at player 0's card count only before drawing. *)
RECURSIVE war_draws_checking_one_player(_, _, _, _, _)
war_draws_checking_one_player(players, pot, events, i, expected_length) ==
    IF i > expected_length
    THEN [players |-> players, pot |-> pot, events |-> events,
          drawn |-> i - 1, shortened |-> FALSE, fatal |-> ""]
    ELSE IF count_cards(players[0]) # 0
    THEN LET a == draw(players[0])
             b == draw(players[1])
         IN  IF Len(a.card) = 1 /\ Len(b.card) = 1
             THEN war_draws_checking_one_player(Pair(a.player, b.player),
                            Pair(Append(pot[0], a.card[1]),
                                 Append(pot[1], b.card[1])),
                            events, i + 1, expected_length)
             ELSE [players |-> Pair(a.player, b.player), pot |-> pot,
                   events |-> events, drawn |-> i - 1, shortened |-> FALSE,
                   fatal |-> "Drawing a card now should never fail"]
    ELSE [players |-> players, pot |-> pot,
          events |-> Append(events,
                        WarShortened(
                            IF count_cards(players[0]) = 0 THEN 0 ELSE 1,
                            i - 1, expected_length)),
          drawn |-> i - 1, shortened |-> TRUE, fatal |-> ""]

(* war_draws going on with the loop after WarShortened. *)
RECURSIVE war_draws_without_break(_, _, _, _, _)
war_draws_without_break(players, pot, events, i, expected_length) ==
    IF i > expected_length
    THEN [players |-> players, pot |-> pot, events |-> events,
          drawn |-> i - 1, shortened |-> FALSE, fatal |-> ""]
    ELSE IF count_cards(players[0]) # 0 /\ count_cards(players[1]) # 0
    THEN LET a == draw(players[0])
             b == draw(players[1])
         IN  IF Len(a.card) = 1 /\ Len(b.card) = 1
             THEN war_draws_without_break(Pair(a.player, b.player),
                            Pair(Append(pot[0], a.card[1]),
                                 Append(pot[1], b.card[1])),
                            events, i + 1, expected_length)
             ELSE [players |-> Pair(a.player, b.player), pot |-> pot,
                   events |-> events, drawn |-> i - 1, shortened |-> FALSE,
                   fatal |-> "Drawing a card now should never fail"]
    ELSE war_draws_without_break(
             players, pot,
             Append(events,
                    WarShortened(IF count_cards(players[0]) = 0 THEN 0 ELSE 1,
                                 i - 1, expected_length)),
             i + 1, expected_length)

(* The for loop of resolve_war from iteration i on.  The result holds the  *)
(* players, the pot and the events after the loop, the number of           *)
(* iterations that drew, whether the loop broke with WarShortened, and the *)
(* message of the unreachable!() it ran into, if any.                      *)
RECURSIVE war_draws(_, _, _, _, _)
war_draws(players, pot, events, i, expected_length) ==
    IF i > expected_length
    THEN [players |-> players, pot |-> pot, events |-> events,
          drawn |-> i - 1, shortened |-> FALSE, fatal |-> ""]
    ELSE IF count_cards(players[0]) # 0 /\ count_cards(players[1]) # 0
    THEN LET a == draw(players[0])
             b == draw(players[1])
         IN  IF Len(a.card) = 1 /\ Len(b.card) = 1
             THEN war_draws(Pair(a.player, b.player),
                            Pair(Append(pot[0], a.card[1]),
                                 Append(pot[1], b.card[1])),
                            events, i + 1, expected_length)
             ELSE [players |-> Pair(a.player, b.player), pot |-> pot,
                   events |-> events, drawn |-> i - 1, shortened |-> FALSE,
                   fatal |-> "Drawing a card now should never fail"]
    ELSE [players |-> players, pot |-> pot,
          events |-> Append(events,
                        WarShortened(
                            IF count_cards(players[0]) = 0 THEN 0 ELSE 1,
                            i - 1, expected_length)),
          drawn |-> i - 1, shortened |-> TRUE, fatal |-> ""]

(* extend_winnings appending the first card of the pot only. *)
extend_winnings_first_only(player, pot_cards) ==
    [player EXCEPT !.winnings_pile = Append(@, pot_cards[1])]

(* A player after the pot was appended to the winnings pile. *)
extend_winnings(player, pot_cards) ==
    [player EXCEPT !.winnings_pile = @ \o pot_cards]

(* What one call of resolve_war (one war round) did, for the properties:   *)
(* the tied face, expected_length, the number of loop iterations that      *)
(* drew, whether the loop broke with WarShortened, the lengths of the two  *)
(* pot stacks and the two players' card counts on entry and at the         *)
(* top-card comparison.                                                    *)
round_record(top_at_start, expected_length, players, pot, loop) ==
    [tied_face |-> top_at_start[0].face,
     expected_length |-> expected_length,
     drawn |-> loop.drawn,
     shortened |-> loop.shortened,
     pot_len_start |-> Pair(Len(pot[0]), Len(pot[1])),
     pot_len_end |-> Pair(Len(loop.pot[0]), Len(loop.pot[1])),
     counts_start |-> Pair(count_cards(players[0]), count_cards(players[1])),
     counts_end |-> Pair(count_cards(loop.players[0]),
                         count_cards(loop.players[1]))]

(* resolve_war returning from a tie with a player out of cards without     *)
(* awarding the pot.                                                       *)
RECURSIVE resolve_war_leaving_tie(_, _, _, _)
resolve_war_leaving_tie(players, pot, events, rounds) ==
    LET top_at_start == Pair(Last(pot[0]), Last(pot[1]))
    IN  IF top_at_start[0].face # top_at_start[1].face
        THEN {[players |-> players, events |-> events, rounds |-> rounds,
               fatal |-> "Cards cannot start a war"]}
        ELSE
        LET expected_length == war_length(top_at_start[0].face)
            loop == war_draws(players, pot,
                              Append(events,
                                     WarStart(top_at_start, expected_length)),
                              1, expected_length)
            top_at_end == Pair(Last(loop.pot[0]), Last(loop.pot[1]))
            log == Append(rounds,
                          round_record(top_at_start, expected_length,
                                       players, pot, loop))
            s0 == measure_strength(top_at_end[0].face)
            s1 == measure_strength(top_at_end[1].face)
            award(winner, pot_cards) ==
                [players |->
                    [loop.players EXCEPT
                        ![winner] = extend_winnings(@, pot_cards)],
                 events |-> Append(loop.events, WarEnd(winner, top_at_end)),
                 rounds |-> log, fatal |-> ""]
        IN  IF loop.fatal # ""
            THEN {[players |-> loop.players, events |-> loop.events,
                   rounds |-> log, fatal |-> loop.fatal]}
            ELSE UNION {
                LET pot_cards == IF gen_bool
                                 THEN loop.pot[0] \o loop.pot[1]
                                 ELSE loop.pot[1] \o loop.pot[0]
                IN  IF s0 < s1 THEN {award(1, pot_cards)}
                    ELSE IF s0 > s1 THEN {award(0, pot_cards)}
                    ELSE IF ~is_dead(loop.players[0]) /\ ~is_dead(loop.players[1])
                    THEN resolve_war_leaving_tie(loop.players, loop.pot,
                                                 loop.events, log)
                    ELSE {[players |-> loop.players, events |-> loop.events,
                           rounds |-> log, fatal |-> ""]}
                : gen_bool \in BOOLEAN}

(* resolve_war going into the next round with the tied top cards as the    *)
(* pot, without the cards under them.                                      *)
RECURSIVE resolve_war_restarting_pot(_, _, _, _)
resolve_war_restarting_pot(players, pot, events, rounds) ==
    LET top_at_start == Pair(Last(pot[0]), Last(pot[1]))
    IN  IF top_at_start[0].face # top_at_start[1].face
        THEN {[players |-> players, events |-> events, rounds |-> rounds,
               fatal |-> "Cards cannot start a war"]}
        ELSE
        LET expected_length == war_length(top_at_start[0].face)
            loop == war_draws(players, pot,
                              Append(events,
                                     WarStart(top_at_start, expected_length)),
                              1, expected_length)
            top_at_end == Pair(Last(loop.pot[0]), Last(loop.pot[1]))
            log == Append(rounds,
                          round_record(top_at_start, expected_length,
                                       players, pot, loop))
            s0 == measure_strength(top_at_end[0].face)
            s1 == measure_strength(top_at_end[1].face)
            award(winner, pot_cards) ==
                [players |->
                    [loop.players EXCEPT
                        ![winner] = extend_winnings(@, pot_cards)],
                 events |-> Append(loop.events, WarEnd(winner, top_at_end)),
                 rounds |-> log, fatal |-> ""]
        IN  IF loop.fatal # ""
            THEN {[players |-> loop.players, events |-> loop.events,
                   rounds |-> log, fatal |-> loop.fatal]}
            ELSE UNION {
                LET pot_cards == IF gen_bool
                                 THEN loop.pot[0] \o loop.pot[1]
                                 ELSE loop.pot[1] \o loop.pot[0]
                IN  IF s0 < s1 THEN {award(1, pot_cards)}
                    ELSE IF s0 > s1 THEN {award(0, pot_cards)}
                    ELSE IF ~is_dead(loop.players[0]) /\ ~is_dead(loop.players[1])
                    THEN resolve_war_restarting_pot(
                             loop.players,
                             Pair(<<top_at_end[0]>>, <<top_at_end[1]>>),
                             loop.events, log)
                    ELSE IF is_dead(loop.players[0])
                    THEN {award(1, pot_cards)}
                    ELSE {award(0, pot_cards)}
                : gen_bool \in BOOLEAN}

(* resolve_war asking, at a tie it cannot continue, whether player 1 is    *)
(* out of cards, and awarding the pot to player 0 if so.                   *)
RECURSIVE resolve_war_asking_player_1(_, _, _, _)
resolve_war_asking_player_1(players, pot, events, rounds) ==
    LET top_at_start == Pair(Last(pot[0]), Last(pot[1]))
    IN  IF top_at_start[0].face # top_at_start[1].face
        THEN {[players |-> players, events |-> events, rounds |-> rounds,
               fatal |-> "Cards cannot start a war"]}
        ELSE
        LET expected_length == war_length(top_at_start[0].face)
            loop == war_draws(players, pot,
                              Append(events,
                                     WarStart(top_at_start, expected_length)),
                              1, expected_length)
            top_at_end == Pair(Last(loop.pot[0]), Last(loop.pot[1]))
            log == Append(rounds,
                          round_record(top_at_start, expected_length,
                                       players, pot, loop))
            s0 == measure_strength(top_at_end[0].face)
            s1 == measure_strength(top_at_end[1].face)
            award(winner, pot_cards) ==
                [players |->
                    [loop.players EXCEPT
                        ![winner] = extend_winnings(@, pot_cards)],
                 events |-> Append(loop.events, WarEnd(winner, top_at_end)),
                 rounds |-> log, fatal |-> ""]
        IN  IF loop.fatal # ""
            THEN {[players |-> loop.players, events |-> loop.events,
                   rounds |-> log, fatal |-> loop.fatal]}
            ELSE UNION {
                LET pot_cards == IF gen_bool
                                 THEN loop.pot[0] \o loop.pot[1]
                                 ELSE loop.pot[1] \o loop.pot[0]
                IN  IF s0 < s1 THEN {award(1, pot_cards)}
                    ELSE IF s0 > s1 THEN {award(0, pot_cards)}
                    ELSE IF ~is_dead(loop.players[0]) /\ ~is_dead(loop.players[1])
                    THEN resolve_war_asking_player_1(loop.players, loop.pot,
                                                     loop.events, log)
                    ELSE IF is_dead(loop.players[1])
                    THEN {award(0, pot_cards)}
                    ELSE {award(1, pot_cards)}
                : gen_bool \in BOOLEAN}

(* resolve_war: the set of results over the values of gen_bool(0.5).  A    *)
(* result holds the players, the events, one round_record per round and    *)
(* the message of the panic that ended it, if any.                         *)
RECURSIVE resolve_war(_, _, _, _)
resolve_war(players, pot, events, rounds) ==
    LET top_at_start == Pair(Last(pot[0]), Last(pot[1]))
    IN  IF top_at_start[0].face # top_at_start[1].face
        THEN {[players |-> players, events |-> events, rounds |-> rounds,
               fatal |-> "Cards cannot start a war"]}
        ELSE
        LET expected_length == war_length(top_at_start[0].face)
            loop == war_draws(players, pot,
                              Append(events,
                                     WarStart(top_at_start, expected_length)),
                              1, expected_length)
            top_at_end == Pair(Last(loop.pot[0]), Last(loop.pot[1]))
            log == Append(rounds,
                          round_record(top_at_start, expected_length,
                                       players, pot, loop))
            s0 == measure_strength(top_at_end[0].face)
            s1 == measure_strength(top_at_end[1].face)
            award(winner, pot_cards) ==
                [players |->
                    [loop.players EXCEPT
                        ![winner] = extend_winnings(@, pot_cards)],
                 events |-> Append(loop.events, WarEnd(winner, top_at_end)),
                 rounds |-> log, fatal |-> ""]
        IN  IF loop.fatal # ""
            THEN {[players |-> loop.players, events |-> loop.events,
                   rounds |-> log, fatal |-> loop.fatal]}
            ELSE UNION {
                LET pot_cards == IF gen_bool
                                 THEN loop.pot[0] \o loop.pot[1]
                                 ELSE loop.pot[1] \o loop.pot[0]
                IN  IF s0 < s1 THEN {award(1, pot_cards)}
                    ELSE IF s0 > s1 THEN {award(0, pot_cards)}
                    ELSE IF ~is_dead(loop.players[0]) /\ ~is_dead(loop.players[1])
                    THEN resolve_war(loop.players, loop.pot, loop.events, log)
                    ELSE IF is_dead(loop.players[0])
                    THEN {award(1, pot_cards)}
                    ELSE {award(0, pot_cards)}
                : gen_bool \in BOOLEAN}

(* ------------------------------ the deals ------------------------------ *)

\* create_shuffled_deck returns one of the 52! orders of the standard deck.
\* The decks followed here, each as the positions in create_standard_deck
\* of its cards, first card first.

\* Both first cards are Kings, both 15th cards tens, both 25th cards aces and
\* the 26th cards differ: one turn, three war rounds, all 52 cards in the pot.
DealAllInWar ==
    <<
       9, 43, 27, 40, 14, 30, 32, 17,  1, 47, 36, 41, 38,
      34, 19, 46, 37, 42, 28,  4,  7, 48, 23, 49, 10, 29,
      24, 21, 11, 44, 15, 35, 25, 50, 39, 45,  5, 33,  3,
      31,  6, 22,  2, 18,  8, 20, 12, 16, 26, 51, 13, 52 >>

\* As DealAllInWar, but the 26th cards tie as well: both players are out of
\* cards at a tied comparison.
DealAllInTie ==
    <<
      35, 48, 27, 40, 33, 47, 14, 41, 20, 43, 50, 49,  6,
      51, 37, 52, 17, 28, 21, 42, 24, 44, 10, 36,  1, 23,
      12, 34, 29, 45,  4, 38,  7, 32, 22, 31,  8, 46,  9,
      30, 16, 15,  5, 19,  2, 25, 11, 39,  3, 18, 13, 26 >>

\* Both first cards are Jacks and the 13th cards differ.
DealJackWar ==
    <<
      38, 45, 29, 32, 21, 48, 24, 44, 25, 35, 16, 52,  9,
      43, 39, 30, 28, 40, 12, 22, 31, 46, 18, 41, 27, 51,
       3, 47,  8, 49, 14, 50, 26, 33, 15, 36,  1, 42,  5,
      17, 13, 34,  2, 19,  4, 20, 23,  6, 10,  7, 11, 37 >>

\* A King war and a 9 war lost by player 0 leave it one card, a 7, against a
\* King.
DealKingVs7 ==
    <<
      33, 52, 18, 51, 47, 48, 43, 44,  3, 41, 34, 38,  6,
      31, 26, 46,  5, 25, 14, 12,  9, 35,  2, 45, 30, 42,
      17, 40, 20, 32, 36, 28, 21, 50, 23, 29,  4, 37, 24,
      27, 11, 19,  7, 49, 10, 15,  1, 16,  8, 22, 13, 39 >>

\* A King war lost by player 0, then a Queen war in which it runs out of cards
\* after 10 of the 13 extra draws and loses the comparison.
DealShortened ==
    <<
      31, 47, 21, 43, 29, 45, 16, 51, 19, 49,  8, 30, 22,
      36, 10, 50,  3, 46,  1, 42, 12, 38, 15, 32, 26, 41,
      33, 48, 17, 28, 20, 23, 24, 52,  9, 40, 11, 44, 18,
      25,  2, 27,  7, 34,  5, 35,  4, 37,  6, 14, 13, 39 >>

\* As DealShortened, but player 0's last card wins the comparison.
DealShortenedWin ==
    <<
      14, 47,  5, 48, 34, 52, 37, 35, 17, 44, 21, 41, 32,
      51, 19, 31, 28, 50,  4, 18, 25, 38, 15, 45, 12, 46,
      29, 43,  7, 40,  2, 27,  8, 49,  1, 33,  6, 22, 16,
      36, 10, 30, 24, 39,  3, 23,  9, 20, 11, 42, 13, 26 >>

\* As DealShortened, but the comparison ties.
DealShortenedTie ==
    <<
      21, 47,  8, 43, 29, 45, 16, 51, 31, 49, 33, 30, 22,
      36, 10, 50,  3, 46,  1, 42, 12, 38, 15, 32, 26, 41,
      20, 48, 17, 28, 19, 23, 24, 52,  9, 40, 11, 44, 18,
      25,  2, 27,  7, 34,  5, 35,  4, 37,  6, 14, 13, 39 >>

\* As DealKingVs7, but the last card of player 0 ties with its opponent's.
DealLastCardTie ==
    <<
       7, 46,  5, 51, 39, 42, 16, 47, 40, 29, 30, 48, 32,
      33, 23, 34, 10, 50, 25, 49, 22, 35, 15, 45, 17, 37,
       3, 24,  8, 11,  9, 38, 12, 41, 19, 21, 27, 44, 14,
      28,  1, 20, 26, 43,  4, 31,  2, 18,  6, 36, 13, 52 >>

\* A King war lost by player 1, then a Queen war in which it runs out.
DealShortenedOther ==
    <<
      16, 51,  3, 41, 34, 48,  7, 43, 26, 45, 25, 44, 27,
      31, 21, 46, 36, 18, 15, 30, 12, 38,  6, 28, 14, 42,
       5, 47, 50, 33,  2, 35, 37, 49, 23, 32, 10, 22, 17,
      29, 24, 52,  4,  9,  1, 19, 11, 40,  8, 20, 13, 39 >>

\* A 5 war, a 10 war and then a Queen war in which both players turn their
\* winnings pile over.
DealSwapInWar ==
    <<
      18, 46, 39, 41, 47, 49, 16, 40, 25, 50, 14, 28,  3,
      51, 34, 43, 12, 38, 22, 42, 20, 37, 19, 15, 17, 27,
       2, 45, 21, 52,  1, 29,  6, 48,  9, 44, 26, 32, 10,
      36,  8, 24, 13, 35,  7, 23,  4, 33, 11, 30,  5, 31 >>

\* Both first cards are Aces and the second cards differ.
DealAceWar ==
    <<
       2, 51, 35, 38, 31, 41, 33, 45, 34, 42, 21, 48, 24,
      28, 20, 52, 39, 29,  6, 50, 22, 25, 11, 12, 36, 15,
       7, 32, 26, 16,  8, 19, 13, 46, 23, 43, 10, 44, 17,
      40, 14, 30, 18,  3,  9, 49,  4, 47,  5, 37,  1, 27 >>

\* A short battle won by player 0, then a King war whose 14th extra cards are
\* Queens: in the second round player 1 runs out after 10 of the 13 extra
\* draws.
DealNestedShortened ==
    <<
      31, 47, 36, 46, 17, 42, 23, 34, 14, 44,  1, 51,  7,
      40, 25, 52, 48, 39, 15, 43, 12, 38, 18, 33, 24, 21,
      35, 45,  4, 20, 16, 50,  2, 32,  3, 49, 10, 37,  6,
      29, 22, 41, 11, 19,  8, 27,  5, 28, 13, 26,  9, 30 >>

\* A short battle won by player 1, then a King war whose 14th extra cards are
\* Queens: in the second round player 0 runs out after 10 of the 13 extra
\* draws and the last cards drawn tie.
DealNestedTie ==
    <<
      21, 47, 27, 43, 17, 44, 14, 49, 28, 45, 37, 32, 16,
      34, 24, 42, 22, 36, 26, 41, 25, 51, 15, 23, 11, 38,
      33, 29,  8, 31,  2, 30, 20, 50,  9, 19,  3, 18, 12,
      46,  5,  6,  1, 52, 10, 40,  7, 48, 13, 39,  4, 35 >>

\* As DealShortenedOther, but the comparison ties.
DealShortenedTieOther ==
    <<
       8, 47, 31, 41, 50, 40,  2, 27, 39, 49, 26, 48, 19,
      34, 38, 35, 30, 42, 37, 14, 25, 51,  6, 28, 18, 43,
       7, 21, 36, 46, 24, 29, 17, 45,  5,  1,  4, 33, 23,
      22, 12, 15,  9, 32,  3, 20, 11, 16, 10, 44, 13, 52 >>

\* Two decks shuffled without a plan.
DealRandom1 ==
    <<
      18, 40, 32, 11, 41, 12,  1, 20, 15, 51, 17,  9, 39,
      45, 34, 46, 25, 30, 23, 13, 22, 44, 31, 29, 50, 52,
       8, 49, 19, 36,  2, 37, 43, 16, 47, 27, 28,  6,  3,
      14, 33, 48, 38, 24,  7, 35,  5,  4, 42, 26, 10, 21 >>

DealRandom2 ==
    <<
      34, 26, 42, 41, 13, 31, 22, 18,  9,  2, 23,  1,  7,
       8, 25, 50, 27, 45, 51, 29, 48,  3, 52, 39, 15, 49,
      11, 33, 17, 10, 19,  6, 43, 12, 16, 20, 24, 47, 38,
      30, 21, 28, 35, 44, 32, 14, 40,  4, 37,  5, 46, 36 >>

\* A deck whose game, with every pot taken up player 0's cards last, comes
\* back after 76 turns to the piles it had after 24.
DealRecurring ==
    <<
      38, 52, 39, 47, 24, 35, 13, 45, 46, 36, 31, 41, 20,
      34,  3, 14,  2, 22, 42,  9, 10,  5, 19, 30, 12, 28,
      44, 27, 11, 33, 16, 48, 51,  7, 29, 49, 18, 25,  1,
      15, 50, 32, 17,  8, 26, 21, 43, 37,  6, 40, 23,  4 >>

Deals ==
    {DealAllInWar, DealAllInTie, DealJackWar, DealKingVs7,
     DealShortened, DealShortenedWin, DealShortenedTie, DealLastCardTie,
     DealShortenedOther, DealSwapInWar, DealAceWar, DealNestedShortened,
     DealNestedTie, DealShortenedTieOther, DealRandom1, DealRandom2, DealRecurring}

(* ------------------------- Game::new, Game::step ----------------------- *)

(* The orders slice::shuffle can leave a Vec in. *)
shuffle(v) ==
    {[i \in 1..Len(v) |-> v[p[i]]] : p \in Permutations(1..Len(v))}

(* The decks create_shuffled_deck returns, of those followed here. *)
create_shuffled_deck ==
    {[i \in 1..Len(create_standard_deck) |-> create_standard_deck[d[i]]] :
        d \in {e \in Deals :
                  /\ Len(e) = Len(create_standard_deck)
                  /\ {e[i] : i \in 1..Len(e)} = 1..Len(create_standard_deck)}}

(* dealt handing every player the cards at the even positions. *)
dealt_ignoring_parity(deck, parity) ==
    [k \in 1..((Len(deck) + 1 - parity) \div 2) |-> deck[2 * k - 1]]

(* The cards of deck at the positions num (counted from 0) with            *)
(* num % 2 = parity, in order.                                             *)
dealt(deck, parity) ==
    [k \in 1..((Len(deck) + 1 - parity) \div 2) |-> deck[2 * k - 1 + parity]]

new(deck) ==
    [players |-> Pair([draw_pile |-> dealt(deck, 0), winnings_pile |-> <<>>],
                      [draw_pile |-> dealt(deck, 1), winnings_pile |-> <<>>]),
     stats |-> [turn_number |-> 0]]

(* Option<Vec<Event>> *)
None == [is_some |-> FALSE, events |-> <<>>]
Some(events) == [is_some |-> TRUE, events |-> events]

(* death_checks naming the dead player as the winner. *)
death_checks_naming_loser(players, events) ==
    LET first == IF is_dead(players[0])
                 THEN Append(events, GameOver(0)) ELSE events
    IN  IF is_dead(players[1]) THEN Append(first, GameOver(1)) ELSE first

(* death_checks putting the GameOver events first. *)
death_checks_in_front(players, events) ==
    LET first == IF is_dead(players[0]) THEN <<GameOver(1)>> ELSE <<>>
        both == IF is_dead(players[1]) THEN Append(first, GameOver(0)) ELSE first
    IN  both \o events

(* The GameOver events appended after the match of step. *)
death_checks(players, events) ==
    LET first == IF is_dead(players[0])
                 THEN Append(events, GameOver(1)) ELSE events
    IN  IF is_dead(players[1]) THEN Append(first, GameOver(0)) ELSE first

(* step comparing the two cards of the pot as shuffle left them. *)
step_comparing_pot(game) ==
    IF is_dead(game.players[0]) \/ is_dead(game.players[1])
    THEN {[game |-> game, ret |-> None, rounds |-> <<>>, fatal |-> "",
           draw_failed |-> FALSE]}
    ELSE
    LET stats == [game.stats EXCEPT !.turn_number = @ + 1]
        a == draw(game.players[0])
        b == draw(game.players[1])
        drawn == Pair(a.player, b.player)
        finish(players, events, rounds, draw_failed) ==
            [game |-> [players |-> players, stats |-> stats],
             ret |-> Some(death_checks(players, events)),
             rounds |-> rounds, fatal |-> "", draw_failed |-> draw_failed]
        panic(players, rounds, message) ==
            [game |-> [players |-> players, stats |-> stats],
             ret |-> None, rounds |-> rounds, fatal |-> message,
             draw_failed |-> FALSE]
    IN  IF Len(a.card) = 1 /\ Len(b.card) = 1 /\ a.card[1].face # b.card[1].face
        THEN {LET sa == measure_strength(pot[1].face)
                  sb == measure_strength(pot[2].face)
              IN  IF sa < sb
                  THEN finish([drawn EXCEPT ![1] = extend_winnings(@, pot)],
                              <<ShortBattle(1, b.card[1], a.card[1], pot)>>,
                              <<>>, FALSE)
                  ELSE IF sa > sb
                  THEN finish([drawn EXCEPT ![0] = extend_winnings(@, pot)],
                              <<ShortBattle(0, a.card[1], b.card[1], pot)>>,
                              <<>>, FALSE)
                  ELSE panic(drawn, <<>>, "Covered by war match branch")
              : pot \in shuffle(<<a.card[1], b.card[1]>>)}
        ELSE IF Len(a.card) = 0 \/ Len(b.card) = 0
        THEN {finish(drawn, <<>>, <<>>, TRUE)}
        ELSE {IF w.fatal # ""
              THEN panic(w.players, w.rounds, w.fatal)
              ELSE finish(w.players, w.events, w.rounds, FALSE)
              : w \in resolve_war(drawn, Pair(<<a.card[1]>>, <<b.card[1]>>),
                                  <<>>, <<>>)}

(* step counting the turn before it looks for a dead player. *)
step_counting_first(game) ==
    IF is_dead(game.players[0]) \/ is_dead(game.players[1])
    THEN {[game |-> [game EXCEPT !.stats.turn_number = @ + 1], ret |-> None,
           rounds |-> <<>>, fatal |-> "", draw_failed |-> FALSE]}
    ELSE
    LET stats == [game.stats EXCEPT !.turn_number = @ + 1]
        a == draw(game.players[0])
        b == draw(game.players[1])
        drawn == Pair(a.player, b.player)
        finish(players, events, rounds, draw_failed) ==
            [game |-> [players |-> players, stats |-> stats],
             ret |-> Some(death_checks(players, events)),
             rounds |-> rounds, fatal |-> "", draw_failed |-> draw_failed]
        panic(players, rounds, message) ==
            [game |-> [players |-> players, stats |-> stats],
             ret |-> None, rounds |-> rounds, fatal |-> message,
             draw_failed |-> FALSE]
    IN  IF Len(a.card) = 1 /\ Len(b.card) = 1 /\ a.card[1].face # b.card[1].face
        THEN LET sa == measure_strength(a.card[1].face)
                 sb == measure_strength(b.card[1].face)
             IN  {IF sa < sb
                  THEN finish([drawn EXCEPT ![1] = extend_winnings(@, pot)],
                              <<ShortBattle(1, b.card[1], a.card[1], pot)>>,
                              <<>>, FALSE)
                  ELSE IF sa > sb
                  THEN finish([drawn EXCEPT ![0] = extend_winnings(@, pot)],
                              <<ShortBattle(0, a.card[1], b.card[1], pot)>>,
                              <<>>, FALSE)
                  ELSE panic(drawn, <<>>, "Covered by war match branch")
                  : pot \in shuffle(<<a.card[1], b.card[1]>>)}
        ELSE IF Len(a.card) = 0 \/ Len(b.card) = 0
        THEN {finish(drawn, <<>>, <<>>, TRUE)}
        ELSE {IF w.fatal # ""
              THEN panic(w.players, w.rounds, w.fatal)
              ELSE finish(w.players, w.events, w.rounds, FALSE)
              : w \in resolve_war(drawn, Pair(<<a.card[1]>>, <<b.card[1]>>),
                                  <<>>, <<>>)}

(* Game::step: the set of results over the values the random source can    *)
(* return.  A result holds the game afterwards, the value returned, the     *)
(* round_records of the turn's war, the message of the panic that ended     *)
(* the call (if any) and whether the draw-failure arm of the match ran.     *)
step(game) ==
    IF is_dead(game.players[0]) \/ is_dead(game.players[1])
    THEN {[game |-> game, ret |-> None, rounds |-> <<>>, fatal |-> "",
           draw_failed |-> FALSE]}
    ELSE
    LET stats == [game.stats EXCEPT !.turn_number = @ + 1]
        a == draw(game.players[0])
        b == draw(game.players[1])
        drawn == Pair(a.player, b.player)
        finish(players, events, rounds, draw_failed) ==
            [game |-> [players |-> players, stats |-> stats],
             ret |-> Some(death_checks(players, events)),
             rounds |-> rounds, fatal |-> "", draw_failed |-> draw_failed]
        panic(players, rounds, message) ==
            [game |-> [players |-> players, stats |-> stats],
             ret |-> None, rounds |-> rounds, fatal |-> message,
             draw_failed |-> FALSE]
    IN  IF Len(a.card) = 1 /\ Len(b.card) = 1 /\ a.card[1].face # b.card[1].face
        THEN LET sa == measure_strength(a.card[1].face)
                 sb == measure_strength(b.card[1].face)
             IN  {IF sa < sb
                  THEN finish([drawn EXCEPT ![1] = extend_winnings(@, pot)],
                              <<ShortBattle(1, b.card[1], a.card[1], pot)>>,
                              <<>>, FALSE)
                  ELSE IF sa > sb
                  THEN finish([drawn EXCEPT ![0] = extend_winnings(@, pot)],
                              <<ShortBattle(0, a.card[1], b.card[1], pot)>>,
                              <<>>, FALSE)
                  ELSE panic(drawn, <<>>, "Covered by war match branch")
                  : pot \in shuffle(<<a.card[1], b.card[1]>>)}
        ELSE IF Len(a.card) = 0 \/ Len(b.card) = 0
        THEN {finish(drawn, <<>>, <<>>, TRUE)}
        ELSE {IF w.fatal # ""
              THEN panic(w.players, w.rounds, w.fatal)
              ELSE finish(w.players, w.events, w.rounds, FALSE)
              : w \in resolve_war(drawn, Pair(<<a.card[1]>>, <<b.card[1]>>),
                                  <<>>, <<>>)}

(* ------------------------------ the driver ----------------------------- *)

VARIABLES
    game,         \* game1 of histogram_length_of_game
    ret,          \* what the last call of step returned
    rounds,       \* the round_records of the last call of step
    fatal,        \* the message of the panic that ended the program, or ""
    draw_failed,  \* whether the last call of step ran the draw-failure arm
    game_overs,   \* the winners named by the GameOver events returned so far
    arrangements, \* the players' piles at the earlier turn boundaries
    some_calls,   \* the number of calls of step that returned events
    pc            \* "loop": in the loop; "done": left it; "panicked"

vars ==
    <<game, ret, rounds, fatal, draw_failed, game_overs, arrangements,
      some_calls, pc>>

winners_named(events) ==
    LET idx == {i \in 1..Len(events) : events[i].kind = "GameOver"}
        RECURSIVE collect(_, _)
        collect(i, acc) ==
            IF i > Len(events) THEN acc
            ELSE collect(i + 1,
                         IF i \in idx
                         THEN Append(acc, events[i].winning_player_id)
                         ELSE acc)
    IN  collect(1, <<>>)

Init ==
    /\ \E deck \in create_shuffled_deck : game = new(deck)
    /\ ret = Some(<<>>)
    /\ rounds = <<>>
    /\ fatal = ""
    /\ draw_failed = FALSE
    /\ game_overs = <<>>
    /\ arrangements = {}
    /\ some_calls = 0
    /\ pc = "loop"

(* One pass of the loop of histogram_length_of_game: a call of step, and   *)
(* the break when it returns None.                                         *)
Loop(result) ==
    /\ game' = result.game
    /\ ret' = result.ret
    /\ rounds' = result.rounds
    /\ fatal' = result.fatal
    /\ draw_failed' = result.draw_failed
    /\ game_overs' = game_overs \o winners_named(result.ret.events)
    /\ arrangements' = IF result.ret.is_some
                       THEN arrangements \cup {game.players}
                       ELSE arrangements
    /\ some_calls' = IF result.ret.is_some THEN some_calls + 1 ELSE some_calls
    /\ pc' = IF result.fatal # "" THEN "panicked"
             ELSE IF result.ret.is_some THEN "loop" ELSE "done"

(* A call of step that plays a turn, of the first bound turns. *)
TurnWithin(bound) ==
    /\ pc = "loop"
    /\ game.stats.turn_number < bound
    /\ \E result \in step(game) :
        /\ result.ret.is_some \/ result.fatal # ""
        /\ Loop(result)

Turn == TurnWithin(MaxTurns)

(* The call of step that returns None, after which the loop is left. *)
Break ==
    /\ pc = "loop"
    /\ \E result \in step(game) :
        /\ ~result.ret.is_some /\ result.fatal = ""
        /\ Loop(result)

Next == Turn \/ Break

Spec == Init /\ [][Next]_vars

(* The cards a player holds. *)
cards_of(player) ==
    {player.draw_pile[i] : i \in 1..Len(player.draw_pile)}
        \cup {player.winnings_pile[i] : i \in 1..Len(player.winnings_pile)}

(* The random source answered so that the pot of the turn went to the      *)
(* winner's winnings pile with the cards player 0 drew after those player  *)
(* 1 drew: shuffle left the pot of a short battle as [b, a], gen_bool      *)
(* returned false in the last war round.                                   *)
Player0CardsLast ==
    \A id \in {0, 1} :
        Len(game'.players[id].winnings_pile) # 0
            /\ count_cards(game'.players[id]) > count_cards(game.players[id])
        => Last(game'.players[id].winnings_pile) \in cards_of(game.players[0])

(* The loop with the random source answering the same way in every turn,   *)
(* followed for MaxOrderedTurns turns: the behaviours of Spec in which it  *)
(* does.                                                                   *)
NextOrdered == (TurnWithin(MaxOrderedTurns) /\ Player0CardsLast) \/ Break

SpecOrdered == Init /\ [][NextOrdered]_vars

(* ----------------------------- properties ------------------------------ *)

Players == {0, 1}
Other(id) == 1 - id
Count(id) == count_cards(game.players[id])
SomeoneDead == Count(0) = 0 \/ Count(1) = 0

(* C1: at every turn boundary the two players' card counts (draw pile plus *)
(* winnings pile) sum to exactly 52.                                       *)
C1_CardsConserved == Count(0) + Count(1) = 52

(* A turn resolved by a war of three rounds and a turn resolved by a       *)
(* shortened war both end with 52 cards held.                              *)
C1_Witness ==
    /\ Count(0) + Count(1) = 52
    /\ Len(rounds) >= 2
    /\ rounds[Len(rounds)].shortened \/ Len(rounds) = 3

(* C2: once the loop has ended exactly one GameOver was emitted over all   *)
(* steps; never more than one is emitted, and from its emission on the     *)
(* player it names holds all 52 cards and the other player none.           *)
C2_OneGameOver ==
    /\ Len(game_overs) <= 1
    /\ pc = "done" => Len(game_overs) = 1
    /\ \A i \in 1..Len(game_overs) :
        /\ Count(game_overs[i]) = 52
        /\ Count(Other(game_overs[i])) = 0

C2_Witness == pc = "done" /\ game_overs = <<0>> /\ Count(0) = 52

(* C3: a call of step returns None exactly when a player has no cards      *)
(* before it, and then leaves the piles and the turn counter as they were; *)
(* in every other state it returns an event list.                          *)
C3_NoneFrame ==
    [][/\ SomeoneDead => ~ret'.is_some /\ game' = game
       /\ ~SomeoneDead => ret'.is_some]_vars

C3_Witness ==
    pc = "done" /\ ~ret.is_some /\ game.stats.turn_number = 3 /\ Count(0) = 0

(* The card Player::draw hands out: the top of the draw pile, or of the    *)
(* winnings pile when the draw pile is empty.                              *)
TopCard(player) ==
    IF Len(player.draw_pile) # 0
    THEN Last(player.draw_pile)
    ELSE Last(player.winnings_pile)

(* The winnings pile a pot is appended to: empty when the draw turned the  *)
(* piles over.                                                             *)
WinningsAfterDraw(player) ==
    IF Len(player.draw_pile) # 0 THEN player.winnings_pile ELSE <<>>

(* C5: a step whose two drawn cards differ in face is a short battle: its  *)
(* pot holds exactly the two drawn cards in either order and is appended   *)
(* to the winner's winnings pile; the winner's card count rises by one and *)
(* the loser's falls by one.                                               *)
C5_ShortBattle ==
    [][~SomeoneDead =>
        LET a == TopCard(game.players[0])
            b == TopCard(game.players[1])
            e == ret'.events[1]
            w == e.winning_player_id
        IN  /\ ret'.is_some /\ Len(ret'.events) >= 1
            /\ (a.face # b.face) <=> (e.kind = "ShortBattle")
            /\ e.kind = "ShortBattle" =>
                /\ e.pot \in {<<a, b>>, <<b, a>>}
                /\ game'.players[w].winnings_pile
                     = WinningsAfterDraw(game.players[w]) \o e.pot
                /\ count_cards(game'.players[w]) = Count(w) + 1
                /\ count_cards(game'.players[Other(w)]) = Count(Other(w)) - 1
    ]_vars

(* A short battle whose pot came out losing card first. *)
C5_Witness ==
    /\ ret.is_some /\ Len(ret.events) >= 1
    /\ ret.events[1].kind = "ShortBattle"
    /\ ret.events[1].pot[1] = ret.events[1].losing_card
    /\ ret.events[1].pot[2] = ret.events[1].winning_card

(* The positions of the WarStart events, and the war round (the number of  *)
(* WarStart events up to it) an event belongs to.                          *)
WarStartPositions(events) ==
    {i \in 1..Len(events) : events[i].kind = "WarStart"}
RoundOf(events, i) ==
    Cardinality({j \in WarStartPositions(events) : j <= i})
RoundStart(events, k) ==
    events[CHOOSE i \in WarStartPositions(events) : RoundOf(events, i) = k]
RoundEmitsShortened(events, k) ==
    \E i \in 1..Len(events) :
        events[i].kind = "WarShortened" /\ RoundOf(events, i) = k

(* The war lengths as documented: Number(n) = n, Ace = 1, Jack = 12,       *)
(* Queen = 13, King = 14.                                                  *)
DocumentedWarLength(face) ==
    IF face = Ace THEN 1
    ELSE IF face = Jack THEN 12
    ELSE IF face = Queen THEN 13
    ELSE IF face = King THEN 14
    ELSE face[2]

(* Every war round of the last step opened with one WarStart event. *)
RoundsMatchEvents ==
    Cardinality(WarStartPositions(ret.events)) = Len(rounds)

(* C6: in a war round that emits no WarShortened each player draws exactly *)
(* war_length(tied face) cards beyond those already in the pot: each pot   *)
(* stack grows, and each player's card count falls, by the expected_length *)
(* of the round's WarStart, which is the documented war length of the tie. *)
C6_FullRound ==
    /\ RoundsMatchEvents
    /\ \A k \in 1..Len(rounds) :
        ~RoundEmitsShortened(ret.events, k) =>
            LET r == rounds[k]
                start == RoundStart(ret.events, k)
            IN  /\ start.top_cards[0].face = r.tied_face
                /\ start.top_cards[1].face = r.tied_face
                /\ start.expected_length = DocumentedWarLength(r.tied_face)
                /\ r.drawn = start.expected_length
                /\ \A id \in Players :
                    /\ r.pot_len_end[id] - r.pot_len_start[id]
                         = start.expected_length
                    /\ r.counts_start[id] - r.counts_end[id]
                         = start.expected_length

(* A full round on an Ace (one extra card) in a war of three rounds. *)
C6_Witness ==
    /\ Len(rounds) = 3
    /\ rounds[3].tied_face = Ace
    /\ ~RoundEmitsShortened(ret.events, 3)
    /\ rounds[3].pot_len_end[0] = rounds[3].pot_len_start[0] + 1

JackOpensTurn ==
    /\ Len(rounds) >= 1
    /\ rounds[1].tied_face = Jack
    /\ rounds[1].pot_len_start = Pair(1, 1)
    /\ ~RoundEmitsShortened(ret.events, 1)

(* C7 as claimed: when two Jacks tie at the start of a turn and the round  *)
(* is not shortened, each side draws 12 more cards and the pot holds 26    *)
(* cards per side at the comparison.                                       *)
C7_Claimed ==
    JackOpensTurn =>
        /\ rounds[1].drawn = 12
        /\ rounds[1].pot_len_end = Pair(26, 26)

(* C7: when two Jacks tie at the start of a turn and the round is not      *)
(* shortened, each side draws 12 more cards and the pot holds 13 cards per *)
(* side, 26 in all, at the comparison.                                     *)
C7_JackWar ==
    JackOpensTurn =>
        /\ rounds[1].drawn = 12
        /\ rounds[1].pot_len_end = Pair(13, 13)
        /\ rounds[1].pot_len_end[0] + rounds[1].pot_len_end[1] = 26

C7_Witness == JackOpensTurn /\ game.stats.turn_number = 1

Min(a, b) == IF a < b THEN a ELSE b

Max(S) == CHOOSE x \in S : \A y \in S : y <= x

(* C8: a war round emits WarShortened if and only if a player's card count *)
(* reaches zero before all expected_length extra draws are made, that is   *)
(* if and only if a player enters the round with fewer than               *)
(* expected_length cards; a player whose last card is the last expected    *)
(* draw causes none.                                                       *)
C8_ShortenedIff ==
    /\ RoundsMatchEvents
    /\ \A k \in 1..Len(rounds) :
        /\ RoundEmitsShortened(ret.events, k)
             <=> Min(rounds[k].counts_start[0], rounds[k].counts_start[1])
                   < RoundStart(ret.events, k).expected_length
        /\ RoundEmitsShortened(ret.events, k)
             <=> /\ rounds[k].drawn < RoundStart(ret.events, k).expected_length
                 /\ 0 \in {rounds[k].counts_end[0], rounds[k].counts_end[1]}

(* A round in which a player ran out of cards exactly on the last expected *)
(* draw, and no WarShortened.                                              *)
C8_Witness ==
    /\ RoundsMatchEvents
    /\ \E k \in 1..Len(rounds) :
        /\ rounds[k].counts_end[0] = 0
        /\ rounds[k].drawn = rounds[k].expected_length
        /\ ~RoundEmitsShortened(ret.events, k)

(* C9: every WarShortened follows its round's WarStart directly; its       *)
(* length_of_war_after_shortening is the number of extra cards each side   *)
(* drew in the round (the same for both) and is smaller than its           *)
(* initial_length_of_war, which is the WarStart's expected_length.         *)
C9_ShortenedLengths ==
    /\ RoundsMatchEvents
    /\ \A i \in 1..Len(ret.events) :
        ret.events[i].kind = "WarShortened" =>
            LET e == ret.events[i]
                r == rounds[RoundOf(ret.events, i)]
            IN  /\ i > 1 /\ ret.events[i - 1].kind = "WarStart"
                /\ e.initial_length_of_war = ret.events[i - 1].expected_length
                /\ e.length_of_war_after_shortening < e.initial_length_of_war
                /\ \A id \in Players :
                    /\ r.pot_len_end[id] - r.pot_len_start[id]
                         = e.length_of_war_after_shortening
                    /\ r.counts_start[id] - r.counts_end[id]
                         = e.length_of_war_after_shortening

(* A Queen war shortened from 13 to 10 extra cards. *)
C9_Witness ==
    \E i \in 1..Len(ret.events) :
        /\ ret.events[i].kind = "WarShortened"
        /\ ret.events[i].length_of_war_after_shortening = 10
        /\ ret.events[i].initial_length_of_war = 13

GameOverPositions(events) ==
    {i \in 1..Len(events) : events[i].kind = "GameOver"}

(* C10: a step returns a GameOver exactly when it leaves a player dead;    *)
(* it is then the only GameOver and the last event, it names the other     *)
(* player, and it directly follows the turn's ShortBattle or WarEnd, which *)
(* names the same winner.                                                  *)
C10_GameOverLast ==
    ret.is_some =>
        /\ SomeoneDead <=> GameOverPositions(ret.events) # {}
        /\ SomeoneDead =>
            LET n == Len(ret.events)
            IN  /\ n >= 2
                /\ GameOverPositions(ret.events) = {n}
                /\ Count(Other(ret.events[n].winning_player_id)) = 0
                /\ Count(ret.events[n].winning_player_id) # 0
                /\ ret.events[n - 1].kind \in {"ShortBattle", "WarEnd"}
                /\ ret.events[n - 1].winning_player_id
                     = ret.events[n].winning_player_id

(* A player's only card, a 7, lost a short battle against a King. *)
C10_Witness ==
    /\ ret.is_some /\ Len(ret.events) = 2
    /\ ret.events[1].kind = "ShortBattle"
    /\ ret.events[1].winning_card.face = King
    /\ ret.events[1].losing_card.face = Number(7)
    /\ ret.events[2] = GameOver(ret.events[1].winning_player_id)
    /\ Count(Other(ret.events[1].winning_player_id)) = 0

(* C4 as claimed: the game ends whatever the deal and however the pots are *)
(* ordered.  What a turn does depends on the piles and the pot orders      *)
(* alone, so an order of play that brings the piles back to an earlier     *)
(* arrangement can be repeated for ever: if every game ends, no            *)
(* arrangement of the piles occurs at two turn boundaries of one game.     *)
C4_Claimed == ret.is_some => game.players \notin arrangements

(* The player whose card count rose in the turn, the number of cards each  *)
(* player drew in it, the pot as it was appended to the winner's winnings  *)
(* pile, and the cards of the pot a player drew, in the order drawn.       *)
TurnWinner == CHOOSE w \in Players : count_cards(game'.players[w]) > Count(w)
TurnDraws ==
    Count(Other(TurnWinner)) - count_cards(game'.players[Other(TurnWinner)])
TurnPot ==
    LET pile == game'.players[TurnWinner].winnings_pile
    IN  SubSeq(pile, Len(pile) - 2 * TurnDraws + 1, Len(pile))
DrawnBy(id) ==
    SelectSeq(TurnPot, LAMBDA c : c \in cards_of(game.players[id]))

(* C11 as claimed: the draws that follow the swap of an empty draw pile    *)
(* with the winnings pile return the cards in the order in which they were *)
(* appended to the winnings pile.                                          *)
C11_Claimed ==
    [][~SomeoneDead /\ ret'.is_some =>
        \A id \in Players :
            LET d == game.players[id].draw_pile
                w == game.players[id].winnings_pile
            IN  /\ Len(DrawnBy(id)) = TurnDraws
                /\ \A j \in 1..TurnDraws :
                    DrawnBy(id)[j] = IF j <= Len(d)
                                     THEN d[Len(d) + 1 - j]
                                     ELSE w[j - Len(d)]
    ]_vars

(* C11: when a draw finds the draw pile empty and the winnings pile not,   *)
(* the winnings pile becomes the draw pile in the order it has, and the    *)
(* draws that follow return its cards last appended first: in the reverse  *)
(* of the order in which they were appended.  The cards not drawn in the   *)
(* turn stay as the new draw pile, in their order.                         *)
C11_SwapDrawsLastAppendedFirst ==
    [][~SomeoneDead /\ ret'.is_some =>
        \A id \in Players :
            LET d == game.players[id].draw_pile
                w == game.players[id].winnings_pile
            IN  /\ Len(DrawnBy(id)) = TurnDraws
                /\ \A j \in 1..TurnDraws :
                    DrawnBy(id)[j] = IF j <= Len(d)
                                     THEN d[Len(d) + 1 - j]
                                     ELSE w[Len(w) + 1 - (j - Len(d))]
                /\ TurnDraws > Len(d) =>
                    game'.players[id].draw_pile
                        = SubSeq(w, 1, Len(w) - (TurnDraws - Len(d)))
    ]_vars

(* A war turn has ended in which player 0 turned its winnings pile over    *)
(* and drew at least two cards of it, leaving some as the new draw pile.   *)
C11_Witness ==
    /\ ret.is_some /\ Len(rounds) >= 1
    /\ \E before \in arrangements :
        /\ Len(before[0].draw_pile) + 2
             <= count_cards(before[0]) - Len(game.players[0].draw_pile)
        /\ Len(before[0].winnings_pile) > Len(game.players[0].draw_pile)
        /\ Len(game.players[0].draw_pile) > 0
        /\ game.players[0].draw_pile
             = SubSeq(before[0].winnings_pile, 1, Len(game.players[0].draw_pile))
        /\ before[0].winnings_pile # <<>>
        /\ Len(before[0].draw_pile) < Len(before[0].winnings_pile)

(* The positions of the WarEnd events. *)
WarEndPositions(events) ==
    {i \in 1..Len(events) : events[i].kind = "WarEnd"}

(* C12: every war started in a step ends: a round after the first is       *)
(* entered with both players holding a card and where the round before it  *)
(* left them, it draws at least one card from each player (no war length   *)
(* is below 1), and the turn's events hold exactly one WarEnd, whose       *)
(* winner has the whole pot on its winnings pile.                          *)
C12_WarEnds ==
    /\ \A face \in Face : war_length(face) >= 1
    /\ fatal = "" /\ pc # "panicked"
    /\ ret.is_some /\ Len(rounds) >= 1 =>
        /\ RoundsMatchEvents
        /\ \A k \in 2..Len(rounds) : \A id \in Players :
            /\ rounds[k].counts_start[id] >= 1
            /\ rounds[k].counts_start[id] = rounds[k - 1].counts_end[id]
            /\ rounds[k].pot_len_start[id] = rounds[k - 1].pot_len_end[id]
            /\ rounds[k].drawn >= 1
            /\ rounds[k].counts_end[id] < rounds[k].counts_start[id]
            /\ rounds[k].pot_len_end[id] > rounds[k].pot_len_start[id]
        /\ Cardinality(WarEndPositions(ret.events)) = 1
        /\ \A i \in WarEndPositions(ret.events) :
            LET last == rounds[Len(rounds)]
                winner == ret.events[i].winning_player_id
            IN  /\ i > Max(WarStartPositions(ret.events))
                /\ Len(game.players[winner].winnings_pile)
                     >= last.pot_len_end[0] + last.pot_len_end[1]
                /\ Count(winner) = last.counts_end[winner]
                                     + last.pot_len_end[0] + last.pot_len_end[1]
                /\ Count(Other(winner)) = last.counts_end[Other(winner)]

(* A war of three rounds has ended, at a tie with the players out of       *)
(* cards.                                                                  *)
C12_Witness ==
    /\ ret.is_some
    /\ Cardinality(WarEndPositions(ret.events)) = 1
    /\ Len(rounds) = 3
    /\ \E i \in WarEndPositions(ret.events) :
        ret.events[i].final_top_cards[0].face
            = ret.events[i].final_top_cards[1].face

(* C13: no fatal branch is ever executed: no call of step ends in a panic  *)
(* (resolve_war entered with top cards of different faces, a draw in the   *)
(* war loop returning nothing, two different faces of equal battle         *)
(* strength in a short battle), the draw-failure arm of step is never      *)
(* taken, every WarStart shows two top cards of one face, and no two faces *)
(* have the same battle strength.                                          *)
C13_NoFatalBranch ==
    /\ fatal = ""
    /\ pc # "panicked"
    /\ ~draw_failed
    /\ \A i \in WarStartPositions(ret.events) :
        ret.events[i].top_cards[0].face = ret.events[i].top_cards[1].face
    /\ \A f \in Face : \A g \in Face :
        f # g => measure_strength(f) # measure_strength(g)

(* A war has gone into a second round and stopped drawing there when       *)
(* player 1 was out of cards.                                              *)
C13_Witness ==
    /\ ret.is_some /\ fatal = "" /\ ~draw_failed
    /\ Len(rounds) >= 2
    /\ rounds[Len(rounds)].shortened
    /\ rounds[Len(rounds)].counts_end[1] = 0

(* The battle strengths as documented: Number(n) = n, Jack = 11,           *)
(* Queen = 12, King = 13, Ace = 14.                                        *)
DocumentedStrength(face) ==
    IF face = Ace THEN 14
    ELSE IF face = King THEN 13
    ELSE IF face = Queen THEN 12
    ELSE IF face = Jack THEN 11
    ELSE face[2]

(* The draw pile a draw leaves: the draw pile, or the winnings pile when   *)
(* the draw pile is empty, without its top card.                           *)
DrawPileAfterDraw(player) ==
    IF Len(player.draw_pile) # 0
    THEN Front(player.draw_pile)
    ELSE Front(player.winnings_pile)

(* C14: in a step whose two drawn cards differ in face the ShortBattle     *)
(* names as winner the owner of the card of higher documented battle       *)
(* strength, the whole pot is appended to that player's winnings pile, and *)
(* the winner's draw pile and both piles of the loser are as the draws     *)
(* left them.                                                              *)
C14_HigherStrengthWins ==
    [][~SomeoneDead =>
        LET a == TopCard(game.players[0])
            b == TopCard(game.players[1])
            w == IF DocumentedStrength(a.face) > DocumentedStrength(b.face)
                 THEN 0 ELSE 1
            l == Other(w)
            e == ret'.events[1]
        IN  a.face # b.face =>
            /\ ret'.is_some /\ Len(ret'.events) >= 1
            /\ e.kind = "ShortBattle"
            /\ e.winning_player_id = w
            /\ e.winning_card = (IF w = 0 THEN a ELSE b)
            /\ e.losing_card = (IF w = 0 THEN b ELSE a)
            /\ DocumentedStrength(e.winning_card.face)
                 > DocumentedStrength(e.losing_card.face)
            /\ Len(e.pot) = 2
            /\ game'.players[w].winnings_pile
                 = WinningsAfterDraw(game.players[w]) \o e.pot
            /\ game'.players[w].draw_pile = DrawPileAfterDraw(game.players[w])
            /\ game'.players[l].draw_pile = DrawPileAfterDraw(game.players[l])
            /\ game'.players[l].winnings_pile
                 = WinningsAfterDraw(game.players[l])
    ]_vars

(* An Ace has won a short battle against a King. *)
C14_Witness ==
    /\ ret.is_some /\ Len(ret.events) >= 1
    /\ ret.events[1].kind = "ShortBattle"
    /\ ret.events[1].winning_card.face = Ace
    /\ ret.events[1].losing_card.face = King

(* The number of extra cards each side drew in the war rounds given. *)
RECURSIVE DrawnInRounds(_)
DrawnInRounds(rs) ==
    IF Len(rs) = 0 THEN 0 ELSE rs[Len(rs)].drawn + DrawnInRounds(Front(rs))

(* C15: when a war round ends with its final top cards tied in battle      *)
(* strength and exactly one player out of cards, it is the last round of   *)
(* the turn: the WarEnd names the other player, and that player's          *)
(* winnings pile ends with the whole pot, the tied cards of the turn and   *)
(* every card drawn in all its rounds.                                     *)
C15_TieWithOneOut ==
    ret.is_some =>
        \A k \in 1..Len(rounds) : \A id \in Players :
            /\ rounds[k].counts_end[id] = 0
            /\ rounds[k].counts_end[Other(id)] # 0
            /\ (k < Len(rounds)
                  \/ \E i \in WarEndPositions(ret.events) :
                       DocumentedStrength(ret.events[i].final_top_cards[0].face)
                         = DocumentedStrength(
                               ret.events[i].final_top_cards[1].face))
            => /\ k = Len(rounds)
               /\ Cardinality(WarStartPositions(ret.events)) = k
               /\ \A i \in WarEndPositions(ret.events) :
                   /\ i = Max(WarStartPositions(ret.events) \cup {i})
                   /\ ret.events[i].winning_player_id = Other(id)
               /\ \A j \in 1..2 : rounds[k].pot_len_end[j - 1]
                                      = 1 + DrawnInRounds(rounds)
               /\ LET pile == game.players[Other(id)].winnings_pile
                      size == 2 * (1 + DrawnInRounds(rounds))
                  IN  /\ Len(pile) >= size
                      /\ Count(Other(id)) = rounds[k].counts_end[Other(id)] + size
                      /\ cards_of(game.players[id]) = {}
                      /\ Cardinality({pile[n] : n \in (Len(pile) - size + 1)..Len(pile)})
                           = size

(* A war of two rounds has ended at a tie with player 0 out of cards and   *)
(* player 1 holding two.                                                   *)
C15_Witness ==
    /\ ret.is_some /\ Len(rounds) = 2
    /\ rounds[2].counts_end = Pair(0, 2)
    /\ \E i \in WarEndPositions(ret.events) :
        /\ ret.events[i].final_top_cards[0].face
             = ret.events[i].final_top_cards[1].face
        /\ ret.events[i].winning_player_id = 1
    /\ Count(1) = 52

(* The 52 cards: one for each suit and face. *)
AllCards == {Card(suit, face) : suit \in Suit, face \in Face}

(* The four piles, one after the other. *)
AllPiles ==
    game.players[0].draw_pile \o game.players[0].winnings_pile
        \o game.players[1].draw_pile \o game.players[1].winnings_pile

(* C16: at every turn boundary each of the 52 cards (one per suit and      *)
(* face) is in exactly one place of the four piles; before the first turn  *)
(* each draw pile holds 26 cards and the winnings piles none.              *)
C16_EveryCardOnce ==
    /\ Cardinality(AllCards) = 52
    /\ Len(AllPiles) = 52
    /\ {AllPiles[i] : i \in 1..Len(AllPiles)} = AllCards
    /\ game.stats.turn_number = 0 =>
        \A id \in Players :
            /\ Len(game.players[id].draw_pile) = 26
            /\ Len(game.players[id].winnings_pile) = 0

(* A war of two rounds in the second turn has left both players cards,    *)
(* and 50 of the 52 went through its pot.                                  *)
C16_Witness ==
    /\ game.stats.turn_number = 2
    /\ Len(rounds) = 2
    /\ rounds[2].pot_len_end = Pair(25, 25)
    /\ Count(0) > 0 /\ Count(1) > 0
    /\ {AllPiles[i] : i \in 1..Len(AllPiles)} = AllCards

(* The cards of a sequence. *)
Range(seq) == {seq[i] : i \in 1..Len(seq)}

(* Two events agree in everything but the order of a ShortBattle's pot. *)
SameEvent(e1, e2) ==
    /\ e1.kind = e2.kind
    /\ IF e1.kind = "ShortBattle"
       THEN /\ e1.winning_player_id = e2.winning_player_id
            /\ e1.winning_card = e2.winning_card
            /\ e1.losing_card = e2.losing_card
            /\ Len(e1.pot) = Len(e2.pot)
            /\ Range(e1.pot) = Range(e2.pot)
       ELSE e1 = e2

(* Two results of step from the state game agree in the value returned up  *)
(* to the order of a pot, in the turn counter, in the draw piles and in    *)
(* the card counts and the cards of the winnings piles, which differ at    *)
(* most in the order of the cards appended in the turn.                    *)
SameOutcome(r1, r2) ==
    /\ r1.fatal = r2.fatal
    /\ r1.draw_failed = r2.draw_failed
    /\ r1.ret.is_some = r2.ret.is_some
    /\ Len(r1.ret.events) = Len(r2.ret.events)
    /\ \A i \in 1..Len(r1.ret.events) :
        SameEvent(r1.ret.events[i], r2.ret.events[i])
    /\ r1.game.stats = r2.game.stats
    /\ \A id \in Players :
        LET p1 == r1.game.players[id]
            p2 == r2.game.players[id]
            appended == IF count_cards(p1) > Count(id)
                        THEN 2 * (Count(Other(id))
                                  - count_cards(r1.game.players[Other(id)]))
                        ELSE 0
            kept == Len(p1.winnings_pile) - appended
        IN  /\ count_cards(p1) = count_cards(p2)
            /\ p1.draw_pile = p2.draw_pile
            /\ Len(p1.winnings_pile) = Len(p2.winnings_pile)
            /\ Range(p1.winnings_pile) = Range(p2.winnings_pile)
            /\ kept >= 0
            /\ SubSeq(p1.winnings_pile, 1, kept)
                 = SubSeq(p2.winnings_pile, 1, kept)

(* C17: what a step does is the same for every answer of the random        *)
(* source: any two executions of step from one state return the same       *)
(* kinds of events with the same winners and cards, and leave the same     *)
(* turn counter, card counts, draw piles and cards in every pile; they     *)
(* differ at most in the order of the pot appended to the winner's         *)
(* winnings pile (and shown in the ShortBattle).                           *)
C17_RandomChoicesOrderOnly ==
    \A r1 \in step(game) : \A r2 \in step(game) : SameOutcome(r1, r2)

(* A state whose next turn is a war of two rounds with two results, which  *)
(* differ in the winner's winnings pile alone.                             *)
C17_Witness ==
    /\ ~SomeoneDead
    /\ TopCard(game.players[0]).face = TopCard(game.players[1]).face
    /\ Cardinality(step(game)) = 2
    /\ \E r1 \in step(game) : \E r2 \in step(game) :
        /\ Len(r1.rounds) = 2
        /\ r1.game.players # r2.game.players
        /\ r1.ret = r2.ret
        /\ SameOutcome(r1, r2)

(* C18: a call of step that returns events raises stats.turn_number by     *)
(* exactly one, whatever the number of war rounds of the turn, and a call  *)
(* that returns none leaves it as it was; so turn_number is the number of  *)
(* calls that have returned events, and at least 1 when the loop has       *)
(* ended.                                                                  *)
C18_TurnCounted ==
    [][/\ ret'.is_some =>
            game'.stats.turn_number = game.stats.turn_number + 1
       /\ ~ret'.is_some =>
            game'.stats.turn_number = game.stats.turn_number
       /\ game'.stats.turn_number = some_calls'
       /\ pc' = "done" => game'.stats.turn_number >= 1
    ]_vars

(* The loop has ended after a single call that returned events, a war of   *)
(* three rounds, and one call that returned none.                          *)
C18_Witness ==
    /\ pc = "done" /\ ~ret.is_some
    /\ some_calls = 1
    /\ game.stats.turn_number = 1

(* The last war round of the turn left both players without cards and its  *)
(* final top cards tied.                                                   *)
BothOutAtTie ==
    /\ ret.is_some /\ Len(rounds) >= 1
    /\ rounds[Len(rounds)].counts_end = Pair(0, 0)
    /\ \E i \in WarEndPositions(ret.events) :
        DocumentedStrength(ret.events[i].final_top_cards[0].face)
            = DocumentedStrength(ret.events[i].final_top_cards[1].face)

(* C19: when a tied war round ends with both players out of cards, the     *)
(* whole pot, all 52 cards, goes to player 1's winnings pile, the WarEnd   *)
(* names player 1, and the step returns one GameOver, naming player 1, as  *)
(* its last event; at no turn boundary are both players dead.              *)
C19_BothOutPlayer1Wins ==
    /\ ~(Count(0) = 0 /\ Count(1) = 0)
    /\ BothOutAtTie =>
        LET n == Len(ret.events)
        IN  /\ rounds[Len(rounds)].pot_len_end = Pair(26, 26)
            /\ Len(game.players[1].winnings_pile) = 52
            /\ Range(game.players[1].winnings_pile) = AllCards
            /\ Count(0) = 0
            /\ WarEndPositions(ret.events) = {n - 1}
            /\ ret.events[n - 1].winning_player_id = 1
            /\ GameOverPositions(ret.events) = {n}
            /\ ret.events[n].winning_player_id = 1

(* The first turn was a war of three rounds that took all 52 cards into    *)
(* the pot and ended tied.                                                 *)
C19_Witness ==
    /\ BothOutAtTie
    /\ game.stats.turn_number = 1
    /\ Len(rounds) = 3
    /\ Count(1) = 52

(* The kinds of the events, in order. *)
Kinds(events) == [i \in 1..Len(events) |-> events[i].kind]

(* n times WarStart. *)
WarStarts(n) == [i \in 1..n |-> "WarStart"]

(* C20: the events of a turn are either one ShortBattle or those of a war, *)
(* in both cases followed by at most one GameOver: a war turn shows one    *)
(* WarStart for each of its one or more rounds, then at most one           *)
(* WarShortened, which belongs to the last round, then exactly one WarEnd; *)
(* no WarStart follows a WarShortened and no turn holds a ShortBattle      *)
(* together with war events.                                               *)
C20_EventOrder ==
    ret.is_some /\ game.stats.turn_number >= 1 =>
        \E over \in {<<>>, <<"GameOver">>} :
            \/ Kinds(ret.events) = <<"ShortBattle">> \o over
            \/ \E n \in 1..Len(ret.events) :
               \E short \in {<<>>, <<"WarShortened">>} :
                   /\ Kinds(ret.events)
                        = WarStarts(n) \o short \o <<"WarEnd">> \o over
                   /\ n = Len(rounds)
                   /\ (short # <<>>) = rounds[n].shortened
                   /\ \A k \in 1..(n - 1) : ~rounds[k].shortened

(* A war turn of two rounds, the second shortened, that ended the game. *)
C20_Witness ==
    /\ ret.is_some
    /\ Kinds(ret.events)
         = <<"WarStart", "WarStart", "WarShortened", "WarEnd", "GameOver">>

=============================================================================
